---- MODULE Spec2Model ----
(***************************************************************************)
(* Model of the two pure helpers of src/main.py:                           *)
(*   floor_to_30min_hhmm (lines 17-30) and classify_wait (lines 32-53).    *)
(* Strings are sequences of one-character strings, so that split, int(),   *)
(* the 02d format and the [:5] slice are computed and not assumed.         *)
(* Labels are written without accents and icons by colour name:            *)
(*   "Medio" is the label of line 49, "white" the icon of line 42, ...     *)
(***************************************************************************)
EXTENDS Integers, Sequences, FiniteSets, TLC

\* ------------------------------------------------------------------ bounds
MaxWait == 4
MaxTol  == 2
MaxLen  == 6

\* ------------------------------------------------- classify_wait (32-53)
\* The missing value (None / NaN) of a wait or of a baseline statistic.
\* Waits are minutes, hence non-negative; the sentinel lies outside them.
Absent == -1

isna(x) == x = Absent

abs(x) == IF x < 0 THEN -x ELSE x

\* Values of the worked example classify(51, 50, 20, 60, 2).
ExampleWaits == {20, 50, 51, 60}

Waits == (0..MaxWait) \cup ExampleWaits

MaybeWaits == Waits \cup {Absent}

Tols == 0..MaxTol

\* classify_wait with the missing-data test of line 41 forgetting p25.
classify_wait_forgets_p25(wait_now, avg, p25, p75, tol) ==
    IF isna(wait_now) \/ isna(avg) \/ isna(p75)
    THEN <<"Sem dados", "white">>
    ELSE IF wait_now > p75 THEN <<"Muito ruim", "red">>
    ELSE IF wait_now > avg THEN <<"Ruim", "orange">>
    ELSE IF abs(wait_now - avg) <= tol THEN <<"Medio", "yellow">>
    ELSE IF wait_now > p25 THEN <<"Bom", "green">>
    ELSE <<"Muito bom", "green green">>

\* classify_wait with the tolerance band tested before the average.
classify_wait_band_first(wait_now, avg, p25, p75, tol) ==
    IF isna(wait_now) \/ isna(avg) \/ isna(p25) \/ isna(p75)
    THEN <<"Sem dados", "white">>
    ELSE IF wait_now > p75 THEN <<"Muito ruim", "red">>
    ELSE IF abs(wait_now - avg) <= tol THEN <<"Medio", "yellow">>
    ELSE IF wait_now > avg THEN <<"Ruim", "orange">>
    ELSE IF wait_now > p25 THEN <<"Bom", "green">>
    ELSE <<"Muito bom", "green green">>

\* classify_wait with the p25 test placed before the average test.
classify_wait_p25_first(wait_now, avg, p25, p75, tol) ==
    IF isna(wait_now) \/ isna(avg) \/ isna(p25) \/ isna(p75)
    THEN <<"Sem dados", "white">>
    ELSE IF wait_now > p75 THEN <<"Muito ruim", "red">>
    ELSE IF abs(wait_now - avg) <= tol THEN <<"Medio", "yellow">>
    ELSE IF wait_now > p25 THEN <<"Bom", "green">>
    ELSE IF wait_now > avg THEN <<"Ruim", "orange">>
    ELSE <<"Muito bom", "green green">>

\* classify_wait with >= in place of > in the p25 test of line 50.
classify_wait_p25_ge(wait_now, avg, p25, p75, tol) ==
    IF isna(wait_now) \/ isna(avg) \/ isna(p25) \/ isna(p75)
    THEN <<"Sem dados", "white">>
    ELSE IF wait_now > p75 THEN <<"Muito ruim", "red">>
    ELSE IF wait_now > avg THEN <<"Ruim", "orange">>
    ELSE IF abs(wait_now - avg) <= tol THEN <<"Medio", "yellow">>
    ELSE IF wait_now >= p25 THEN <<"Bom", "green">>
    ELSE <<"Muito bom", "green green">>

\* classify_wait with < in place of <= in the tolerance test of line 48.
classify_wait_tol_strict(wait_now, avg, p25, p75, tol) ==
    IF isna(wait_now) \/ isna(avg) \/ isna(p25) \/ isna(p75)
    THEN <<"Sem dados", "white">>
    ELSE IF wait_now > p75 THEN <<"Muito ruim", "red">>
    ELSE IF wait_now > avg THEN <<"Ruim", "orange">>
    ELSE IF abs(wait_now - avg) < tol THEN <<"Medio", "yellow">>
    ELSE IF wait_now > p25 THEN <<"Bom", "green">>
    ELSE <<"Muito bom", "green green">>

\* classify_wait with >= in place of > in the average test of line 46.
classify_wait_avg_ge(wait_now, avg, p25, p75, tol) ==
    IF isna(wait_now) \/ isna(avg) \/ isna(p25) \/ isna(p75)
    THEN <<"Sem dados", "white">>
    ELSE IF wait_now > p75 THEN <<"Muito ruim", "red">>
    ELSE IF wait_now >= avg THEN <<"Ruim", "orange">>
    ELSE IF abs(wait_now - avg) <= tol THEN <<"Medio", "yellow">>
    ELSE IF wait_now > p25 THEN <<"Bom", "green">>
    ELSE <<"Muito bom", "green green">>

classify_wait(wait_now, avg, p25, p75, tol) ==
    IF isna(wait_now) \/ isna(avg) \/ isna(p25) \/ isna(p75)
    THEN <<"Sem dados", "white">>
    ELSE IF wait_now > p75 THEN <<"Muito ruim", "red">>
    ELSE IF wait_now > avg THEN <<"Ruim", "orange">>
    ELSE IF abs(wait_now - avg) <= tol THEN <<"Medio", "yellow">>
    ELSE IF wait_now > p25 THEN <<"Bom", "green">>
    ELSE <<"Muito bom", "green green">>

\* The tiers in order of severity, best first.
Severity(label) ==
    CASE label = "Muito bom"  -> 0
      [] label = "Bom"        -> 1
      [] label = "Medio"      -> 2
      [] label = "Ruim"       -> 3
      [] label = "Muito ruim" -> 4
      [] OTHER                -> -1

\* ------------------------------------------- floor_to_30min_hhmm (17-30)
Digit == <<"0", "1", "2", "3", "4", "5", "6", "7", "8", "9">>

DigitChars == {Digit[i] : i \in 1..10}

DigitVal(c) == (CHOOSE i \in 1..10 : Digit[i] = c) - 1

\* ts_florida_dt.strftime("%H:%M") of line 138.
strftime_HM(h, m) ==
    <<Digit[(h \div 10) + 1], Digit[(h % 10) + 1], ":",
      Digit[(m \div 10) + 1], Digit[(m % 10) + 1]>>

\* Position of the first ":" of s, 0 when there is none.
find_colon(s) ==
    IF \E i \in 1..Len(s) : s[i] = ":"
    THEN CHOOSE i \in 1..Len(s) : s[i] = ":" /\ \A j \in 1..(i-1) : s[j] # ":"
    ELSE 0

\* hhmm.split(":") : the list of the parts between the colons.
RECURSIVE split(_)
split(s) ==
    LET i == find_colon(s)
    IN  IF i = 0 THEN <<s>>
        ELSE <<SubSeq(s, 1, i - 1)>> \o split(SubSeq(s, i + 1, Len(s)))

\* str.strip() as int() applies it: leading and trailing blanks removed.
RECURSIVE strip(_)
strip(s) ==
    IF s = <<>> THEN s
    ELSE IF s[1] = " " THEN strip(Tail(s))
    ELSE IF s[Len(s)] = " " THEN strip(SubSeq(s, 1, Len(s) - 1))
    ELSE s

\* The digits of an int literal after its blanks and sign are removed.
int_digits(s) ==
    LET t == strip(s)
    IN  IF t # <<>> /\ t[1] = "-" THEN Tail(t) ELSE t

int_negative(s) ==
    LET t == strip(s) IN t # <<>> /\ t[1] = "-"

\* int(s) succeeds: blanks, an optional sign, one digit or more.
int_ok(s) ==
    LET d == int_digits(s)
    IN  d # <<>> /\ \A i \in 1..Len(d) : d[i] \in DigitChars

RECURSIVE digits_value(_)
digits_value(d) ==
    IF d = <<>> THEN 0
    ELSE 10 * digits_value(SubSeq(d, 1, Len(d) - 1)) + DigitVal(d[Len(d)])

\* int(s), for s with int_ok(s).
int(s) ==
    IF int_negative(s) THEN 0 - digits_value(int_digits(s))
    ELSE digits_value(int_digits(s))

RECURSIVE decimal(_)
decimal(n) ==
    IF n < 10 THEN <<Digit[n + 1]>>
    ELSE decimal(n \div 10) \o <<Digit[(n % 10) + 1]>>

\* f"{n:02d}" : zero padded to width 2, the sign counting in the width.
fmt_02d(n) ==
    IF n < 0 THEN <<"-">> \o decimal(0 - n)
    ELSE IF n < 10 THEN <<"0">> \o decimal(n)
    ELSE decimal(n)

\* The bucket minute with <= in place of < (line 27).
m_bucket_le(m) == IF m <= 30 THEN 0 ELSE 30

\* The bucket minute with the two branches exchanged (line 27).
m_bucket_swapped(m) == IF m < 30 THEN 30 ELSE 0

m_bucket(m) == IF m < 30 THEN 0 ELSE 30

\* hhmm[:4] in place of hhmm[:5] (line 30).
first5_short(s) == SubSeq(s, 1, IF Len(s) < 4 THEN Len(s) ELSE 4)

\* hhmm[:5]
first5(s) == SubSeq(s, 1, IF Len(s) < 5 THEN Len(s) ELSE 5)

\* The body of the try block (lines 24-28): ok is FALSE when it raises.
try_body(hhmm) ==
    LET parts == split(hhmm)
    IN  IF Len(parts) # 2 THEN [ok |-> FALSE, val |-> <<>>]
        ELSE IF ~int_ok(parts[1]) \/ ~int_ok(parts[2])
             THEN [ok |-> FALSE, val |-> <<>>]
        ELSE [ok  |-> TRUE,
              val |-> fmt_02d(int(parts[1])) \o <<":">>
                      \o fmt_02d(m_bucket(int(parts[2])))]

floor_to_30min_hhmm(hhmm) ==
    LET r == try_body(hhmm)
    IN  IF r.ok THEN r.val ELSE first5(hhmm)

\* -------------------------------------------------------------- inputs
Alphabet == {"3", ":", "x", "-", " "}

RECURSIVE StringsOfLen(_)
StringsOfLen(n) ==
    IF n = 0 THEN {<<>>}
    ELSE {Append(s, c) : s \in StringsOfLen(n - 1), c \in Alphabet}

Strings == UNION {StringsOfLen(n) : n \in 0..MaxLen}

\* ---------------------------------------------------------------- state
VARIABLES
    wait_now, avg, p25, p75, tol,   \* arguments of the latest classify_wait
    result,                         \* its (label, icon), <<>> before any call
    prev_wait, prev_result,         \* the call before, on the same baseline
    orig,                           \* the string first given to the bucketizer
    hhmm,                           \* argument of the latest floor_to_30min_hhmm
    bucket,                         \* its result
    applied                         \* successive applications to orig, 0..2

cvars == <<wait_now, avg, p25, p75, tol, result, prev_wait, prev_result>>
bvars == <<orig, hhmm, bucket, applied>>
vars  == <<wait_now, avg, p25, p75, tol, result, prev_wait, prev_result,
           orig, hhmm, bucket, applied>>

NoResult == <<>>

Init ==
    /\ wait_now = Absent /\ avg = Absent /\ p25 = Absent /\ p75 = Absent
    /\ tol = 0
    /\ result = NoResult
    /\ prev_wait = Absent /\ prev_result = NoResult
    /\ orig = <<>> /\ hhmm = <<>> /\ bucket = <<>> /\ applied = 0

\* The first call classify_wait(w, a, lo, hi, t) of a run, as made per row
\* at 239-246. The function keeps no state, so a run follows one baseline.
Classify ==
    /\ result = NoResult
    /\ \E w \in MaybeWaits, a \in MaybeWaits, lo \in MaybeWaits,
          hi \in MaybeWaits, t \in Tols :
          /\ wait_now' = w /\ avg' = a /\ p25' = lo /\ p75' = hi /\ tol' = t
          /\ result' = classify_wait(w, a, lo, hi, t)
    /\ prev_wait' = Absent /\ prev_result' = NoResult
    /\ UNCHANGED bvars

\* A further call on the same baseline and tolerance with another live wait.
Reclassify ==
    /\ result # NoResult
    /\ \E w \in MaybeWaits :
          /\ wait_now' = w
          /\ result' = classify_wait(w, avg, p25, p75, tol)
    /\ prev_wait' = wait_now /\ prev_result' = result
    /\ UNCHANGED <<avg, p25, p75, tol>>
    /\ UNCHANGED bvars

\* Lines 138-142: the live sample's time of day is formatted and bucketed.
LiveSample ==
    /\ applied = 0
    /\ \E h \in 0..23, m \in 0..59 :
          /\ orig' = strftime_HM(h, m)
          /\ hhmm' = strftime_HM(h, m)
          /\ bucket' = floor_to_30min_hhmm(strftime_HM(h, m))
    /\ applied' = 1
    /\ UNCHANGED cvars

\* floor_to_30min_hhmm called on an arbitrary string.
Bucketize ==
    /\ applied = 0
    /\ \E s \in Strings :
          /\ orig' = s
          /\ hhmm' = s
          /\ bucket' = floor_to_30min_hhmm(s)
    /\ applied' = 1
    /\ UNCHANGED cvars

\* floor_to_30min_hhmm applied to its own result.
BucketizeAgain ==
    /\ applied = 1
    /\ hhmm' = bucket
    /\ bucket' = floor_to_30min_hhmm(bucket)
    /\ applied' = 2
    /\ UNCHANGED orig
    /\ UNCHANGED cvars

NextClassify ==
    \/ Classify
    \/ Reclassify

NextBucket ==
    \/ LiveSample
    \/ Bucketize
    \/ BucketizeAgain

SpecClassify == Init /\ [][NextClassify]_vars

SpecBucket == Init /\ [][NextBucket]_vars

\* ================================================================ claims
\* A call has been made and none of its four values is missing.
AllPresent ==
    /\ result # NoResult
    /\ wait_now # Absent /\ avg # Absent /\ p25 # Absent /\ p75 # Absent

\* C1: when one or more of wait_now, avg, p25, p75 is missing, the result is
\* the fixed pair ("Sem dados", white marker), whatever the other values
\* and the tolerance are.
C1_MissingIsSemDados ==
    (result # NoResult /\ (wait_now = Absent \/ avg = Absent
                            \/ p25 = Absent \/ p75 = Absent))
        => result = <<"Sem dados", "white">>

\* Only p25 is missing, the three other values are those of a real row.
C1_Witness ==
    /\ wait_now = 51 /\ avg = 50 /\ p25 = Absent /\ p75 = 60 /\ tol = 2
    /\ result = <<"Sem dados", "white">>

C3_BandIsMedium ==
    (AllPresent /\ wait_now - avg <= tol /\ avg - wait_now <= tol)
        => result[1] = "Medio"

C5_MonotoneOutsideBand ==
    (AllPresent /\ prev_result # NoResult /\ prev_wait # Absent
       /\ prev_wait <= wait_now
       /\ abs(prev_wait - avg) > tol /\ abs(wait_now - avg) > tol)
        => Severity(prev_result[1]) <= Severity(result[1])

\* Two calls on one baseline, the second with a longer wait and a strictly
\* more severe tier.
C5_Witness ==
    /\ AllPresent /\ prev_wait # Absent /\ prev_wait < wait_now
    /\ abs(prev_wait - avg) > tol /\ abs(wait_now - avg) > tol
    /\ prev_result[1] = "Bom" /\ result[1] = "Ruim"

\* C9: with the four values present, the good tier is returned only for
\* p25 < wait_now < avg and the bad tier only for avg < wait_now <= p75.
C9_GoodAndBadRanges ==
    AllPresent =>
        /\ (result[1] = "Bom") => (p25 < wait_now /\ wait_now < avg)
        /\ (result[1] = "Ruim") => (avg < wait_now /\ wait_now <= p75)

C9_Witness ==
    /\ AllPresent /\ result[1] = "Bom" /\ tol = 0 /\ wait_now + 1 = avg

IsValidTime(s) ==
    /\ Len(s) = 5
    /\ s[3] = ":"
    /\ \/ s[1] \in {"0", "1"} /\ s[2] \in DigitChars
       \/ s[1] = "2" /\ s[2] \in {"0", "1", "2", "3"}
    /\ s[4] \in {"0", "1", "2", "3", "4", "5"}
    /\ s[5] \in DigitChars

\* C6: on a valid zero-padded "HH:MM" the result is "HH:00" when the minute
\* is below 30 and "HH:30" otherwise, the hour kept.
C6_ValidTimeIsFloored ==
    (applied = 1 /\ IsValidTime(hhmm)) =>
        bucket = <<hhmm[1], hhmm[2], ":",
                   IF hhmm[4] \in {"0", "1", "2"} THEN "0" ELSE "3", "0">>

\* 23:59 -> 23:30
C6_Witness ==
    /\ applied = 1
    /\ hhmm = <<"2", "3", ":", "5", "9">>
    /\ bucket = <<"2", "3", ":", "3", "0">>

\* C7: on a valid time of day, applying floor_to_30min_hhmm to its own
\* result gives that result again.
C7_Idempotent ==
    (applied = 2 /\ IsValidTime(orig)) => bucket = hhmm

\* 11:27 -> 11:00 -> 11:00
C7_Witness ==
    /\ applied = 2
    /\ orig = <<"1", "1", ":", "2", "7">>
    /\ hhmm = <<"1", "1", ":", "0", "0">>
    /\ bucket = <<"1", "1", ":", "0", "0">>

\* p reads as an integer: blanks, an optional sign, digits, blanks.
IsNumeral(p) ==
    \E a \in 1..Len(p), b \in 1..Len(p) :
        /\ a <= b
        /\ \A i \in a..b : p[i] \in DigitChars
        /\ \A i \in 1..(a - 1) : p[i] = " " \/ (i = a - 1 /\ p[i] = "-")
        /\ \A i \in (b + 1)..Len(p) : p[i] = " "

Colons(s) == {i \in 1..Len(s) : s[i] = ":"}

\* s is not two integers separated by one colon.
Unparsable(s) ==
    \/ Cardinality(Colons(s)) # 1
    \/ \E k \in Colons(s) :
          \/ ~IsNumeral(SubSeq(s, 1, k - 1))
          \/ ~IsNumeral(SubSeq(s, k + 1, Len(s)))

\* C8 as stated: on an unparsable input the result is the input cut to its
\* first 5 characters, and it is not empty.
C8_UnparsableIsTruncatedNonEmpty ==
    (applied = 1 /\ Unparsable(hhmm)) =>
        /\ bucket = [i \in 1..(IF Len(hhmm) < 5 THEN Len(hhmm) ELSE 5)
                       |-> hhmm[i]]
        /\ bucket # <<>>

\* C8 amended: on an unparsable input the result is the input cut to its
\* first 5 characters; it is not empty unless the input is the empty string.
C8_UnparsableIsTruncated ==
    (applied = 1 /\ Unparsable(hhmm)) =>
        /\ bucket = [i \in 1..(IF Len(hhmm) < 5 THEN Len(hhmm) ELSE 5)
                       |-> hhmm[i]]
        /\ (hhmm # <<>> => bucket # <<>>)

\* An input of six characters with a non-numeric part, cut to five.
C8_Witness ==
    /\ applied = 1
    /\ hhmm = <<"3", "3", ":", "x", "3", "3">>
    /\ bucket = <<"3", "3", ":", "x", "3">>

====
